---- MODULE Spec2Model ----
(***************************************************************************)
(* Model of table_extraction.py: the TableRange value type, the growth     *)
(* routine _find_table_range_from_boolean_array_starting_at and the        *)
(* row-major sweep of find_all_table_range; of the file loop of            *)
(* ExcelTableConverter.convert_all_to_csv with _already_converted          *)
(* and extract_table_from_sheet with _get_table and the callback           *)
(* add_longname_and_shortname (excel_table_conversion.py); of Logger       *)
(* (logger.py); and of merge_csv (merge.py).                               *)
(*                                                                         *)
(* A 2D array (pandas DataFrame or numpy.ndarray) is a record              *)
(*   [dtype, shape, data] with shape = <<n_rows, n_cols>> and data a       *)
(* function on the 0-based index pairs <<r, c>>.                           *)
(***************************************************************************)
EXTENDS Integers, Sequences, FiniteSets, TLC

VARIABLES
    df,                \* the DataFrame given to find_all_table_range
    min_n_rows,        \* threshold argument
    min_n_cols,        \* threshold argument
    value_exists_at,   \* the working boolean array (also: the array given to the growth routine)
    list_table_range,  \* the result list under construction
    row,               \* loop variable of the outer for (also: start_row of a direct growth call)
    col,               \* loop variable of the inner for (also: start_col of a direct growth call)
    table_range,       \* the range most recently returned by the growth routine
    raised,            \* the exception a call has raised, or NoError
    calls,             \* number of invocations of find_all_table_range so far
    prev_result,       \* what the previous invocation returned
    pc,                \* control position
    args,              \* the arguments of a direct call of a TableRange method
    result,            \* what a direct call of a TableRange method returned
    walk,              \* the files os.walk yields to convert_all_to_csv or merge_csv, in order
    fs,                \* per file of the walk: what is on disk (modification times; columns of a CSV)
    skip_converted,    \* argument of convert_all_to_csv
    backup_excel,      \* argument of convert_all_to_csv
    file_index,        \* position of the walk
    mock_calls,        \* the calls made to convert_to_csv and _backup_excel, in order
    last_check,        \* arguments and return value of the latest _already_converted call
    colorama_initializeed,  \* the class attribute Logger._colorama_initializeed
    colorama_active,   \* whether the colorama package is initialized
    loggers,           \* the Logger instances alive, each with its _log
    delete_errorfile,  \* argument of merge_csv
    logger,            \* argument of merge_csv: the Logger that stores its messages
    cols,              \* local of merge_csv: the columns of the first CSV read (len_cols is its length)
    list_df            \* local of merge_csv: the frames to be merged

sweepVars == <<df, min_n_rows, min_n_cols, value_exists_at, list_table_range,
               row, col, table_range, raised, calls, prev_result, pc>>
unitVars == <<args, result>>
convVars == <<walk, fs, skip_converted, backup_excel, file_index, mock_calls, last_check>>
logVars == <<colorama_initializeed, colorama_active, loggers>>
mergeVars == <<delete_errorfile, logger, cols, list_df>>
extVars == <<unitVars, convVars, logVars, mergeVars>>

vars == <<sweepVars, unitVars, convVars, logVars, mergeVars>>

----------------------------------------------------------------------------
(* Bounds of the model *)

MaxRows == 4
MaxCols == 4
MaxCells == 9
MaxMin == 2
MaxCalls == 2
MaxUnitRows == 2
MaxUnitCols == 2
MaxFiles == 2
MaxTime == 2
MaxLoggers == 2
MaxLog == 2
MaxColumns == 2
MaxSheetRows == 3
MaxSheetCols == 2
MaxSheetCells == 6
MaxOffset == 2

----------------------------------------------------------------------------
(* Values *)

NaN == "NaN"
CellValues == {NaN, "a"}
IntValues == {0, 1}
None == [none |-> TRUE]

\* the variables of the parts of the program a specification does not run
UnitIdle == args = None /\ result = None
ConvIdle ==
    /\ walk = <<>> /\ fs = <<>> /\ skip_converted = FALSE /\ backup_excel = FALSE
    /\ file_index = 1 /\ mock_calls = <<>> /\ last_check = None
LogIdle == colorama_initializeed = FALSE /\ colorama_active = FALSE /\ loggers = <<>>
MergeIdle == delete_errorfile = FALSE /\ logger = None /\ cols = None /\ list_df = <<>>
NoError == "NoError"
TypeError == "TypeError"
ValueError == "ValueError"

Shapes == {s \in (0..MaxRows) \X (0..MaxCols) : s[1] * s[2] <= MaxCells}
Indices(shape) == (0..(shape[1] - 1)) \X (0..(shape[2] - 1))

DataFrames ==
    UNION {[dtype : {"object"}, shape : {s}, data : [Indices(s) -> CellValues]] : s \in Shapes}
BoolArrays ==
    UNION {[dtype : {"bool"}, shape : {s}, data : [Indices(s) -> BOOLEAN]] : s \in Shapes}
IntArrays ==
    UNION {[dtype : {"int"}, shape : {s}, data : [Indices(s) -> IntValues]] : s \in Shapes}

EmptyFrame == [dtype |-> "object", shape |-> <<0, 0>>, data |-> <<>>]

\* an array written as a sequence of rows, as in pd.DataFrame([...]) and np.array([...])
FromRows(dtype, rows) ==
    [dtype |-> dtype, shape |-> <<Len(rows), Len(rows[1])>>,
     data |-> [p \in Indices(<<Len(rows), Len(rows[1])>>) |-> rows[p[1] + 1][p[2] + 1]]]

\* the frame of the docstring example and of test_find_all_table_range
ExampleFrame ==
    FromRows("object", << <<"a", "b", NaN, NaN, NaN>>,
                          <<"0", "10.0", NaN, "c", "d">>,
                          <<NaN, NaN, NaN, NaN, "-4">> >>)

\* the arrays of test_find_table_range_from_boolean_array_starting_at
TestBooleanArray ==
    FromRows("bool", << <<FALSE, TRUE, TRUE, FALSE>>,
                        <<FALSE, FALSE, TRUE, FALSE>>,
                        <<FALSE, TRUE, FALSE, FALSE>>,
                        <<FALSE, FALSE, FALSE, TRUE>>,
                        <<FALSE, FALSE, FALSE, FALSE>> >>)

TestIntArray == FromRows("int", << <<1, 2, 3>>, <<4, 5, 6>> >>)

----------------------------------------------------------------------------
(* class TableRange *)

TableRange(start_pos, stop_pos) ==
    [start_row |-> start_pos[1], start_col |-> start_pos[2],
     stop_row |-> stop_pos[1], stop_col |-> stop_pos[2]]

\* variant: only a position that is too short is refused, a longer one is cut
TableRangeInitTruncating(start_pos, stop_pos) ==
    IF (Len(start_pos) < 2) \/ (Len(stop_pos) < 2)
    THEN [raised |-> ValueError, range |-> None]
    ELSE [raised |-> NoError, range |-> TableRange(start_pos, stop_pos)]

\* __init__ with its length test: [raised, range]
TableRangeInit(start_pos, stop_pos) ==
    IF (Len(start_pos) # 2) \/ (Len(stop_pos) # 2)
    THEN [raised |-> ValueError, range |-> None]
    ELSE [raised |-> NoError, range |-> TableRange(start_pos, stop_pos)]

\* the properties start_pos and stop_pos
StartPos(t) == <<t.start_row, t.start_col>>
StopPos(t) == <<t.stop_row, t.stop_col>>

InRange(t, r, c) ==
    /\ t.start_row <= r /\ r < t.stop_row
    /\ t.start_col <= c /\ c < t.stop_col

\* variant: only the header row of the rectangle is assigned
FillHeaderRowOnly(t, array, value) ==
    [array EXCEPT !.data =
        [p \in DOMAIN array.data |->
            IF InRange(t, p[1], p[2]) /\ p[1] = t.start_row THEN value ELSE array.data[p]]]

\* variant: the last column of the rectangle is left out
FillWithoutLastCol(t, array, value) ==
    [array EXCEPT !.data =
        [p \in DOMAIN array.data |->
            IF InRange(t, p[1], p[2]) /\ p[2] < t.stop_col - 1 THEN value ELSE array.data[p]]]

\* array[start_row:stop_row, start_col:stop_col] = value
FillInplace(t, array, value) ==
    [array EXCEPT !.data =
        [p \in DOMAIN array.data |->
            IF InRange(t, p[1], p[2]) THEN value ELSE array.data[p]]]

\* variant: one dimension reaching its minimum is enough
HasMinSizeEither(t, min_rows, min_cols) ==
    IF (t.stop_row - t.start_row < min_rows) /\ (t.stop_col - t.start_col < min_cols)
    THEN FALSE ELSE TRUE

\* variant: <= in place of <
HasMinSizeStrict(t, min_rows, min_cols) ==
    IF t.stop_row - t.start_row <= min_rows THEN FALSE
    ELSE IF t.stop_col - t.start_col <= min_cols THEN FALSE
    ELSE TRUE

\* variant: the column test is missing
HasMinRowsOnly(t, min_rows, min_cols) ==
    IF t.stop_row - t.start_row < min_rows THEN FALSE ELSE TRUE

HasMinSize(t, min_rows, min_cols) ==
    IF t.stop_row - t.start_row < min_rows THEN FALSE
    ELSE IF t.stop_col - t.start_col < min_cols THEN FALSE
    ELSE TRUE

\* a slice start:stop of an axis of length n, as positions: first position and length
SliceFirst(start, stop, n) == IF start > n THEN n ELSE start
SliceLen(start, stop, n) ==
    LET first == IF start > n THEN n ELSE start
        last == IF stop > n THEN n ELSE stop
    IN IF last > first THEN last - first ELSE 0

\* frame.iloc[start_row:stop_row, start_col:stop_col]; index and columns keep the labels
\* of the frame, which are the positions 0, 1, ... of a frame built from rows
ILocSlice(frame, start_row, stop_row, start_col, stop_col) ==
    LET r0 == SliceFirst(start_row, stop_row, frame.shape[1])
        nr == SliceLen(start_row, stop_row, frame.shape[1])
        c0 == SliceFirst(start_col, stop_col, frame.shape[2])
        nc == SliceLen(start_col, stop_col, frame.shape[2])
    IN [dtype |-> frame.dtype, shape |-> <<nr, nc>>,
        index |-> [i \in 1..nr |-> r0 + i - 1],
        columns |-> [j \in 1..nc |-> c0 + j - 1],
        data |-> [p \in Indices(<<nr, nc>>) |-> frame.data[<<r0 + p[1], c0 + p[2]>>]]]

\* variant: the stop bounds are taken as inclusive
ToDataframeInclusive(t, frame) ==
    [raised |-> NoError,
     frame |-> ILocSlice(frame, t.start_row, t.stop_row + 1, t.start_col, t.stop_col + 1)]

\* variant: rows and columns past the end of the frame are kept, filled with NaN
ToDataframePadding(t, frame) ==
    LET nr == IF t.stop_row > t.start_row THEN t.stop_row - t.start_row ELSE 0
        nc == IF t.stop_col > t.start_col THEN t.stop_col - t.start_col ELSE 0
    IN [raised |-> NoError,
        frame |-> [dtype |-> frame.dtype, shape |-> <<nr, nc>>,
                   index |-> [i \in 1..nr |-> t.start_row + i - 1],
                   columns |-> [j \in 1..nc |-> t.start_col + j - 1],
                   data |-> [p \in Indices(<<nr, nc>>) |->
                               IF <<t.start_row + p[1], t.start_col + p[2]>> \in DOMAIN frame.data
                               THEN frame.data[<<t.start_row + p[1], t.start_col + p[2]>>]
                               ELSE NaN]]]

\* to_dataframe: [raised, frame]; an iloc slice raises nothing
ToDataframe(t, frame) ==
    [raised |-> NoError,
     frame |-> ILocSlice(frame, t.start_row, t.stop_row, t.start_col, t.stop_col)]

----------------------------------------------------------------------------
(* numpy / pandas helpers used by the module *)

\* df.notna().to_numpy(): a fresh boolean array, TRUE where the cell is not missing
NotnaToNumpy(frame) ==
    [dtype |-> "bool", shape |-> frame.shape,
     data |-> [p \in DOMAIN frame.data |-> frame.data[p] # NaN]]

\* np.logical_not(array): elementwise; a number is false iff it is zero
LogicalNot(array) ==
    [dtype |-> "bool", shape |-> array.shape,
     data |-> [p \in DOMAIN array.data |->
                 IF array.dtype = "bool" THEN ~array.data[p] ELSE array.data[p] = 0]]

\* variant: .any() in place of .all()
RowSliceAny(array, r, start_col, stop_col) ==
    \E c \in start_col..(stop_col - 1) : array.data[<<r, c>>]

\* array[r, start_col:stop_col].all(); TRUE for an empty slice
RowSliceAll(array, r, start_col, stop_col) ==
    \A c \in start_col..(stop_col - 1) : array.data[<<r, c>>]

----------------------------------------------------------------------------
(* _find_table_range_from_boolean_array_starting_at *)

RECURSIVE ColLoopNoBreak(_, _, _, _)
\* variant: the loop goes on after a false cell instead of breaking
ColLoopNoBreak(array_is_false_at, start_row, c, stop_col) ==
    IF c >= array_is_false_at.shape[2] THEN stop_col
    ELSE IF array_is_false_at.data[<<start_row, c>>]
         THEN ColLoopNoBreak(array_is_false_at, start_row, c + 1, stop_col)
         ELSE ColLoopNoBreak(array_is_false_at, start_row, c + 1, c + 1)

RECURSIVE ColLoop(_, _, _, _)
\* for col in range(start_col, last_col): the value of stop_col when the loop ends
ColLoop(array_is_false_at, start_row, c, stop_col) ==
    IF c >= array_is_false_at.shape[2] THEN stop_col
    ELSE IF array_is_false_at.data[<<start_row, c>>] THEN stop_col
    ELSE ColLoop(array_is_false_at, start_row, c + 1, c + 1)

RECURSIVE RowLoopNoBreak(_, _, _, _, _)
\* variant: the loop goes on after an all-false row instead of breaking
RowLoopNoBreak(array_is_false_at, r, start_col, stop_col, stop_row) ==
    IF r >= array_is_false_at.shape[1] THEN stop_row
    ELSE IF RowSliceAll(array_is_false_at, r, start_col, stop_col)
         THEN RowLoopNoBreak(array_is_false_at, r + 1, start_col, stop_col, stop_row)
         ELSE RowLoopNoBreak(array_is_false_at, r + 1, start_col, stop_col, r + 1)

RECURSIVE RowLoop(_, _, _, _, _)
\* for row in range(start_row, last_row): the value of stop_row when the loop ends
RowLoop(array_is_false_at, r, start_col, stop_col, stop_row) ==
    IF r >= array_is_false_at.shape[1] THEN stop_row
    ELSE IF RowSliceAll(array_is_false_at, r, start_col, stop_col) THEN stop_row
    ELSE RowLoop(array_is_false_at, r + 1, start_col, stop_col, r + 1)

\* variant: any array is let through
IsAnyArray(array) == TRUE

\* the dtype test that guards the routine
IsBooleanArray(array) == array.dtype = "bool"

\* variant: stop_row, stop_col start at 0, 0 instead of start_pos
GrowFromZeroInit(start_pos, boolean_array) ==
    LET start_row == start_pos[1]
        start_col == start_pos[2]
        array_is_false_at == LogicalNot(boolean_array)
        stop_col == ColLoop(array_is_false_at, start_row, start_col, 0)
        stop_row == RowLoop(array_is_false_at, start_row, start_col, stop_col, 0)
    IN TableRange(<<start_row, start_col>>, <<stop_row, stop_col>>)

\* the body after the dtype test
GrowFrom(start_pos, boolean_array) ==
    LET start_row == start_pos[1]
        start_col == start_pos[2]
        array_is_false_at == LogicalNot(boolean_array)
        stop_col == ColLoop(array_is_false_at, start_row, start_col, start_pos[2])
        stop_row == RowLoop(array_is_false_at, start_row, start_col, stop_col, start_pos[1])
    IN TableRange(<<start_row, start_col>>, <<stop_row, stop_col>>)

\* the whole routine: [raised, range]
FindTableRange(start_pos, boolean_array) ==
    IF ~IsBooleanArray(boolean_array)
    THEN [raised |-> TypeError, range |-> None]
    ELSE [raised |-> NoError, range |-> GrowFrom(start_pos, boolean_array)]

----------------------------------------------------------------------------
(* find_all_table_range: one action per iteration of the nested loops *)

last_row == value_exists_at.shape[1]
last_col == value_exists_at.shape[2]

\* variant: the result list outlives the call (a list shared between invocations)
EntrySharedList(frame, old_list) ==
    [value_exists_at |-> NotnaToNumpy(frame), list_table_range |-> old_list]

\* the locals set up on entry; old_list is what an earlier invocation left behind
Entry(frame, old_list) ==
    [value_exists_at |-> NotnaToNumpy(frame), list_table_range |-> <<>>]

Init ==
    /\ df \in DataFrames \cup {ExampleFrame}
    /\ min_n_rows \in 0..MaxMin
    /\ min_n_cols \in 0..MaxMin
    /\ value_exists_at = Entry(df, <<>>).value_exists_at
    /\ list_table_range = Entry(df, <<>>).list_table_range
    /\ row = 0
    /\ col = 0
    /\ table_range = None
    /\ raised = NoError
    /\ calls = 1
    /\ prev_result = <<>>
    /\ pc = "sweep"
    /\ UnitIdle /\ ConvIdle /\ LogIdle /\ MergeIdle

\* variant: after the last column the sweep starts the same row again
AdvanceSameRow ==
    IF col + 1 < last_col
    THEN row' = row /\ col' = col + 1
    ELSE row' = row /\ col' = 0

\* the loop variables after the current inner iteration
Advance ==
    IF col + 1 < last_col
    THEN row' = row /\ col' = col + 1
    ELSE row' = row + 1 /\ col' = 0

InLoop == pc = "sweep" /\ row < last_row /\ col < last_col

\* variant: every cell is taken as an anchor
AlwaysAnchor(array, r, c) == TRUE

\* the cell test of the sweep
IsAnchor(array, r, c) == array.data[<<r, c>>]

\* variant: list.insert(0, t)
ListPrepend(list, t) == <<t>> \o list

\* list.append(t)
ListAppend(list, t) == Append(list, t)

\* if value_exists_at[row, col] is false: nothing happens
Skip ==
    /\ InLoop
    /\ ~IsAnchor(value_exists_at, row, col)
    /\ Advance
    /\ UNCHANGED <<df, min_n_rows, min_n_cols, value_exists_at, list_table_range,
                   table_range, raised, calls, prev_result, pc>>
    /\ UNCHANGED extVars

\* the cell is present and the grown range has the minimum size
Accept ==
    /\ InLoop
    /\ IsAnchor(value_exists_at, row, col)
    /\ LET found == FindTableRange(<<row, col>>, value_exists_at)
       IN /\ found.raised = NoError
          /\ HasMinSize(found.range, min_n_rows, min_n_cols)
          /\ table_range' = found.range
          /\ list_table_range' = ListAppend(list_table_range, found.range)
          /\ value_exists_at' = FillInplace(found.range, value_exists_at, FALSE)
    /\ Advance
    /\ UNCHANGED <<df, min_n_rows, min_n_cols, raised, calls, prev_result, pc>>
    /\ UNCHANGED extVars

\* variant: a range that is too small is erased all the same
RejectErasing ==
    /\ InLoop
    /\ IsAnchor(value_exists_at, row, col)
    /\ LET found == FindTableRange(<<row, col>>, value_exists_at)
       IN /\ found.raised = NoError
          /\ ~HasMinSize(found.range, min_n_rows, min_n_cols)
          /\ table_range' = found.range
          /\ value_exists_at' = FillInplace(found.range, value_exists_at, FALSE)
    /\ Advance
    /\ UNCHANGED <<df, min_n_rows, min_n_cols, list_table_range,
                   raised, calls, prev_result, pc>>
    /\ UNCHANGED extVars

\* the cell is present and the grown range is too small
Reject ==
    /\ InLoop
    /\ IsAnchor(value_exists_at, row, col)
    /\ LET found == FindTableRange(<<row, col>>, value_exists_at)
       IN /\ found.raised = NoError
          /\ ~HasMinSize(found.range, min_n_rows, min_n_cols)
          /\ table_range' = found.range
    /\ Advance
    /\ UNCHANGED <<df, min_n_rows, min_n_cols, value_exists_at, list_table_range,
                   raised, calls, prev_result, pc>>
    /\ UNCHANGED extVars

\* an outer iteration over a frame with no columns: the inner loop is empty
EmptyRow ==
    /\ pc = "sweep"
    /\ row < last_row
    /\ last_col = 0
    /\ row' = row + 1
    /\ UNCHANGED <<df, min_n_rows, min_n_cols, value_exists_at, list_table_range,
                   col, table_range, raised, calls, prev_result, pc>>
    /\ UNCHANGED extVars

\* return list_table_range
Return ==
    /\ pc = "sweep"
    /\ row >= last_row
    /\ pc' = "returned"
    /\ UNCHANGED <<df, min_n_rows, min_n_cols, value_exists_at, list_table_range,
                   row, col, table_range, raised, calls, prev_result>>
    /\ UNCHANGED extVars

Next == Skip \/ Accept \/ Reject \/ EmptyRow \/ Return

Spec == Init /\ [][Next]_vars

----------------------------------------------------------------------------
(* The caller invokes find_all_table_range again on the same frame with the *)
(* same thresholds, keeping what the previous invocation returned.          *)

CallAgain ==
    /\ pc = "returned"
    /\ calls < MaxCalls
    /\ calls' = calls + 1
    /\ prev_result' = list_table_range
    /\ value_exists_at' = Entry(df, list_table_range).value_exists_at
    /\ list_table_range' = Entry(df, list_table_range).list_table_range
    /\ row' = 0
    /\ col' = 0
    /\ table_range' = None
    /\ pc' = "sweep"
    /\ UNCHANGED <<df, min_n_rows, min_n_cols, raised>>
    /\ UNCHANGED extVars

NextRerun == Skip \/ Accept \/ Reject \/ EmptyRow \/ Return \/ CallAgain

SpecRerun == Init /\ [][NextRerun]_vars

----------------------------------------------------------------------------
(* A direct call of the growth routine, as the unit test makes it:          *)
(* boolean_array is value_exists_at, start_pos is <<row, col>>.             *)

InitGrow ==
    /\ value_exists_at \in BoolArrays \cup IntArrays \cup {TestBooleanArray, TestIntArray}
    /\ row \in 0..(value_exists_at.shape[1] - 1)
    /\ col \in 0..(value_exists_at.shape[2] - 1)
    /\ df = EmptyFrame
    /\ min_n_rows = 1
    /\ min_n_cols = 1
    /\ list_table_range = <<>>
    /\ table_range = None
    /\ raised = NoError
    /\ calls = 0
    /\ prev_result = <<>>
    /\ pc = "call"
    /\ UnitIdle /\ ConvIdle /\ LogIdle /\ MergeIdle

GrowReturns ==
    /\ pc = "call"
    /\ LET found == FindTableRange(<<row, col>>, value_exists_at)
       IN /\ found.raised = NoError
          /\ table_range' = found.range
    /\ pc' = "grown"
    /\ UNCHANGED <<df, min_n_rows, min_n_cols, value_exists_at, list_table_range,
                   row, col, raised, calls, prev_result>>
    /\ UNCHANGED extVars

GrowRaises ==
    /\ pc = "call"
    /\ LET found == FindTableRange(<<row, col>>, value_exists_at)
       IN /\ found.raised # NoError
          /\ raised' = found.raised
    /\ pc' = "raised"
    /\ UNCHANGED <<df, min_n_rows, min_n_cols, value_exists_at, list_table_range,
                   row, col, table_range, calls, prev_result>>
    /\ UNCHANGED extVars

NextGrow == GrowReturns \/ GrowRaises

SpecGrow == InitGrow /\ [][NextGrow]_vars

----------------------------------------------------------------------------
(* The sweep and the direct growth call under one specification *)

InitSweepOrGrow == Init \/ InitGrow

NextSweepOrGrow == Skip \/ Accept \/ Reject \/ EmptyRow \/ Return \/ GrowReturns \/ GrowRaises

SpecSweepOrGrow == InitSweepOrGrow /\ [][NextSweepOrGrow]_vars

----------------------------------------------------------------------------
(* Direct use of class TableRange, as TableRangeTest makes it: construction, *)
(* then one call of a method.                                                *)

RowCoords == 0..(MaxUnitRows + 1)
ColCoords == 0..(MaxUnitCols + 1)
Positions == UNION {[1..n -> RowCoords \cup ColCoords] : n \in 1..3}
UnitShapes == (0..MaxUnitRows) \X (0..MaxUnitCols)
UnitFrames ==
    UNION {[dtype : {"object"}, shape : {s}, data : [Indices(s) -> CellValues]] : s \in UnitShapes}
UnitArrays ==
    UNION {[dtype : {"bool"}, shape : {s}, data : [Indices(s) -> BOOLEAN]] : s \in UnitShapes}

\* the ranges TableRangeTest constructs
TestRangeArgs ==
    {[start_pos |-> <<1, 1>>, stop_pos |-> <<2, 3>>],
     [start_pos |-> <<1, 2>>, stop_pos |-> <<3, 4>>],
     [start_pos |-> <<1, 3>>, stop_pos |-> <<3, 5>>],
     [start_pos |-> <<1, 3>>, stop_pos |-> <<2, 4>>]}

InitRange ==
    /\ args \in [start_pos : Positions, stop_pos : Positions] \cup TestRangeArgs
    /\ result = None
    /\ df = EmptyFrame
    /\ min_n_rows = 1
    /\ min_n_cols = 1
    /\ value_exists_at = NotnaToNumpy(EmptyFrame)
    /\ list_table_range = <<>>
    /\ row = 0
    /\ col = 0
    /\ table_range = None
    /\ raised = NoError
    /\ calls = 0
    /\ prev_result = <<>>
    /\ pc = "new"
    /\ ConvIdle /\ LogIdle /\ MergeIdle

\* TableRange(start_pos, stop_pos) returns an instance
Construct ==
    /\ pc = "new"
    /\ LET made == TableRangeInit(args.start_pos, args.stop_pos)
       IN /\ made.raised = NoError
          /\ table_range' = made.range
    /\ pc' = "range"
    /\ UNCHANGED <<df, min_n_rows, min_n_cols, value_exists_at, list_table_range,
                   row, col, raised, calls, prev_result>>
    /\ UNCHANGED extVars

\* TableRange(start_pos, stop_pos) raises
ConstructRaises ==
    /\ pc = "new"
    /\ LET made == TableRangeInit(args.start_pos, args.stop_pos)
       IN /\ made.raised # NoError
          /\ raised' = made.raised
    /\ pc' = "raised"
    /\ UNCHANGED <<df, min_n_rows, min_n_cols, value_exists_at, list_table_range,
                   row, col, table_range, calls, prev_result>>
    /\ UNCHANGED extVars

\* table_range.has_min_size(min_rows, min_cols)
CallHasMinSize ==
    /\ pc = "range"
    /\ \E min_rows \in 0..MaxMin, min_cols \in 0..MaxMin :
          /\ min_n_rows' = min_rows
          /\ min_n_cols' = min_cols
          /\ result' = HasMinSize(table_range, min_rows, min_cols)
    /\ pc' = "has_min_size"
    /\ UNCHANGED <<df, value_exists_at, list_table_range, row, col, table_range,
                   raised, calls, prev_result, args>>
    /\ UNCHANGED <<convVars, logVars, mergeVars>>

\* table_range.fill_inplace(array, value); args keeps the array as it was given
CallFillInplace ==
    /\ pc = "range"
    /\ \E array \in UnitArrays, value \in BOOLEAN :
          /\ args' = [array |-> array, value |-> value]
          /\ value_exists_at' = FillInplace(table_range, array, value)
    /\ pc' = "filled"
    /\ UNCHANGED <<df, min_n_rows, min_n_cols, list_table_range, row, col, table_range,
                   raised, calls, prev_result, result>>
    /\ UNCHANGED <<convVars, logVars, mergeVars>>

\* table_range.to_dataframe(frame); args keeps the frame as it was given
CallToDataframe ==
    /\ pc = "range"
    /\ \E frame \in UnitFrames \cup {ExampleFrame} :
          LET got == ToDataframe(table_range, frame)
          IN /\ args' = [df |-> frame, range |-> table_range]
             /\ df' = frame
             /\ raised' = got.raised
             /\ result' = got.frame
    /\ pc' = "to_dataframe"
    /\ UNCHANGED <<min_n_rows, min_n_cols, value_exists_at, list_table_range, row, col,
                   table_range, calls, prev_result>>
    /\ UNCHANGED <<convVars, logVars, mergeVars>>

NextRange == Construct \/ ConstructRaises \/ CallHasMinSize \/ CallFillInplace \/ CallToDataframe

SpecRange == InitRange /\ [][NextRange]_vars

----------------------------------------------------------------------------
(* excel_table_conversion.py: ExcelTableConverter.convert_all_to_csv.        *)
(* A filename is a sequence of pieces, "zz_TEP_1.xlsx" = <<"zz_TEP", "_1",   *)
(* ".xlsx">>; the walk is the sequence of the files os.walk yields; fs[i]    *)
(* holds the modification time of file i and of its target CSV file.         *)

StartsWith(name, prefix) ==
    Len(prefix) <= Len(name) /\ SubSeq(name, 1, Len(prefix)) = prefix
EndsWith(name, suffix) ==
    Len(suffix) <= Len(name) /\ SubSeq(name, Len(name) - Len(suffix) + 1, Len(name)) = suffix

\* ExcelTableFormat.header_in_filename as convert() and the tests set it
HeaderInFilename == <<"zz_TEP">>

\* ExcelTableFormat.acceptable_excel_filename
AcceptableExcelFilename(filename) ==
    StartsWith(filename, HeaderInFilename) /\ EndsWith(filename, <<".xlsx">>)

\* _already_converted(source_filepath, target_filepath) on the file system entry f
AlreadyConverted(f) ==
    IF ~f.target_exists THEN FALSE
    ELSE IF f.source_mtime > f.target_mtime THEN FALSE
    ELSE TRUE

FileNames ==
    {<<"zz_TEP", "_1", ".xlsx">>, <<"not_TEP", ".xlsx">>, <<"zz_TEP", "_data", ".txt">>}
FileEntries ==
    [source_mtime : 1..MaxTime, target_exists : {TRUE}, target_mtime : 1..MaxTime]
        \cup [source_mtime : 1..MaxTime, target_exists : {FALSE}, target_mtime : {0}]

\* the time at which this run writes a file: later than every time on disk
Now == MaxTime + 1

ConvertCall(i) == <<"convert_to_csv", i>>
BackupCall(i) == <<"_backup_excel", i>>
CheckOf(f, returned) ==
    [source_mtime |-> f.source_mtime, target_exists |-> f.target_exists,
     target_mtime |-> f.target_mtime, returned |-> returned]

InitConvert ==
    /\ \E n \in 0..MaxFiles :
          /\ walk \in [1..n -> FileNames]
          /\ fs \in [1..n -> FileEntries]
    /\ skip_converted \in BOOLEAN
    /\ backup_excel \in BOOLEAN
    /\ file_index = 1
    /\ mock_calls = <<>>
    /\ last_check = None
    /\ df = EmptyFrame
    /\ min_n_rows = 1
    /\ min_n_cols = 1
    /\ value_exists_at = NotnaToNumpy(EmptyFrame)
    /\ list_table_range = <<>>
    /\ row = 0
    /\ col = 0
    /\ table_range = None
    /\ raised = NoError
    /\ calls = 0
    /\ prev_result = <<>>
    /\ pc = "walk"
    /\ UnitIdle /\ LogIdle /\ MergeIdle

InWalk == pc = "walk" /\ file_index <= Len(walk)

\* the filename is not acceptable: continue
SkipUnacceptable ==
    /\ InWalk
    /\ ~AcceptableExcelFilename(walk[file_index])
    /\ file_index' = file_index + 1
    /\ UNCHANGED <<walk, fs, skip_converted, backup_excel, mock_calls, last_check>>
    /\ UNCHANGED <<sweepVars, unitVars, logVars, mergeVars>>

\* skip_converted and _already_converted(...): continue
SkipConverted ==
    /\ InWalk
    /\ AcceptableExcelFilename(walk[file_index])
    /\ skip_converted
    /\ AlreadyConverted(fs[file_index])
    /\ last_check' = CheckOf(fs[file_index], TRUE)
    /\ file_index' = file_index + 1
    /\ UNCHANGED <<walk, fs, skip_converted, backup_excel, mock_calls>>
    /\ UNCHANGED <<sweepVars, unitVars, logVars, mergeVars>>

\* convert_to_csv writes the CSV file, then _backup_excel if backup_excel;
\* _already_converted is evaluated only when skip_converted is true
Convert ==
    /\ InWalk
    /\ AcceptableExcelFilename(walk[file_index])
    /\ ~(skip_converted /\ AlreadyConverted(fs[file_index]))
    /\ last_check' = IF skip_converted THEN CheckOf(fs[file_index], FALSE) ELSE last_check
    /\ fs' = [fs EXCEPT ![file_index].target_exists = TRUE, ![file_index].target_mtime = Now]
    /\ mock_calls' = IF backup_excel
                     THEN mock_calls \o <<ConvertCall(file_index), BackupCall(file_index)>>
                     ELSE Append(mock_calls, ConvertCall(file_index))
    /\ file_index' = file_index + 1
    /\ UNCHANGED <<walk, skip_converted, backup_excel>>
    /\ UNCHANGED <<sweepVars, unitVars, logVars, mergeVars>>

\* the walk is exhausted: convert_all_to_csv returns
WalkDone ==
    /\ pc = "walk"
    /\ file_index > Len(walk)
    /\ pc' = "done"
    /\ UNCHANGED <<df, min_n_rows, min_n_cols, value_exists_at, list_table_range,
                   row, col, table_range, raised, calls, prev_result>>
    /\ UNCHANGED extVars

NextConvert == SkipUnacceptable \/ SkipConverted \/ Convert \/ WalkDone

SpecConvert == InitConvert /\ [][NextConvert]_vars

----------------------------------------------------------------------------
(* logger.py: Logger and ColorMsg.  colorama_initializeed is the class       *)
(* attribute Logger._colorama_initializeed; colorama_active tells whether    *)
(* colorama is initialized (init() called and no deinit() since); loggers    *)
(* maps each object slot to the Logger living there, or None.  Printing      *)
(* (print_on_append) writes to the terminal only and is left out.            *)

\* ColorMsg.__init__
ColorMsg(text, color, style, background_color) ==
    [type |-> "ColorMsg", _text |-> text, _color |-> color, _style |-> style,
     _background_color |-> background_color]

\* a str value and an int value of Python
PyStr(text) == [type |-> "str", value |-> text]
PyInt(n) == [type |-> "int", int |-> n]
IsInstance(v, type) == v.type = type

\* Logger.__init__ with its default arguments (lines 52-56)
NewLoggerObject ==
    [_log |-> <<>>, print_on_append |-> FALSE, alert_color |-> "Fore.RED",
     alert_style |-> "", alert_background_color |-> ""]

\* the arguments given to append and append_alert: a str, a ColorMsg, an int
AppendArgs == {PyStr("a"), ColorMsg("a", "", "", ""), PyInt(1)}
AppendAlertArgs == {PyStr("a"), ColorMsg("a", "", "", "")}

Alive == {i \in 1..MaxLoggers : loggers[i] # None}

\* variant: the oldest message of the log
LastMsgFirst(self) ==
    IF Len(self._log) = 0 THEN ColorMsg("", "", "", "")
    ELSE self._log[1]

\* Logger.last_msg
LastMsg(self) ==
    IF Len(self._log) = 0 THEN ColorMsg("", "", "", "")
    ELSE self._log[Len(self._log)]

InitLogger ==
    /\ colorama_initializeed = FALSE
    /\ colorama_active = FALSE
    /\ loggers = [i \in 1..MaxLoggers |-> None]
    /\ df = EmptyFrame
    /\ min_n_rows = 1
    /\ min_n_cols = 1
    /\ value_exists_at = NotnaToNumpy(EmptyFrame)
    /\ list_table_range = <<>>
    /\ row = 0
    /\ col = 0
    /\ table_range = None
    /\ raised = NoError
    /\ calls = 0
    /\ prev_result = <<>>
    /\ pc = "logger"
    /\ UnitIdle /\ ConvIdle /\ MergeIdle

\* args records the call just made: the Logger it was made on and its argument
LoggerFrame ==
    /\ UNCHANGED <<df, min_n_rows, min_n_cols, value_exists_at, list_table_range,
                   row, col, table_range, calls, prev_result>>
    /\ UNCHANGED <<result, convVars, mergeVars>>

\* Logger.__init__: colorama_init() only while the class attribute is unset
NewLogger ==
    \E i \in 1..MaxLoggers :
        /\ loggers[i] = None
        /\ colorama_active' = IF ~colorama_initializeed THEN TRUE ELSE colorama_active
        /\ colorama_initializeed' = TRUE
        /\ loggers' = [loggers EXCEPT ![i] = NewLoggerObject]
        /\ raised' = NoError
        /\ args' = [self |-> i]
        /\ pc' = "constructed"
        /\ LoggerFrame

\* Logger.__del__: colorama_deinit() if the class attribute is set, which is
\* left as it is; then clear_log, and the object is gone
DelLogger ==
    \E i \in Alive :
        /\ colorama_active' = IF colorama_initializeed THEN FALSE ELSE colorama_active
        /\ loggers' = [loggers EXCEPT ![i] = None]
        /\ raised' = NoError
        /\ args' = [self |-> i]
        /\ pc' = "deleted"
        /\ UNCHANGED colorama_initializeed
        /\ LoggerFrame

\* Logger.append of a str or a ColorMsg
LoggerAppend ==
    \E i \in Alive, msg_or_str \in AppendArgs :
        /\ IsInstance(msg_or_str, "str") \/ IsInstance(msg_or_str, "ColorMsg")
        /\ Len(loggers[i]._log) < MaxLog
        /\ LET msg == IF IsInstance(msg_or_str, "str")
                      THEN ColorMsg(msg_or_str.value, "", "", "")
                      ELSE msg_or_str
           IN loggers' = [loggers EXCEPT ![i]._log = Append(@, msg)]
        /\ raised' = NoError
        /\ args' = [self |-> i, arg |-> msg_or_str]
        /\ pc' = "appended"
        /\ UNCHANGED <<colorama_initializeed, colorama_active>>
        /\ LoggerFrame

\* Logger.append of anything else: TypeError
LoggerAppendRaises ==
    \E i \in Alive, msg_or_str \in AppendArgs :
        /\ ~IsInstance(msg_or_str, "str")
        /\ ~IsInstance(msg_or_str, "ColorMsg")
        /\ raised' = TypeError
        /\ args' = [self |-> i, arg |-> msg_or_str]
        /\ pc' = "appended"
        /\ UNCHANGED logVars
        /\ LoggerFrame

\* Logger.append_alert of a str: append a ColorMsg in the alert format
AppendAlert ==
    \E i \in Alive, text \in AppendAlertArgs :
        /\ IsInstance(text, "str")
        /\ Len(loggers[i]._log) < MaxLog
        /\ loggers' = [loggers EXCEPT ![i]._log =
                          Append(@, ColorMsg(text.value, loggers[i].alert_color,
                                             loggers[i].alert_style,
                                             loggers[i].alert_background_color))]
        /\ raised' = NoError
        /\ args' = [self |-> i, arg |-> text]
        /\ pc' = "alerted"
        /\ UNCHANGED <<colorama_initializeed, colorama_active>>
        /\ LoggerFrame

\* Logger.append_alert of anything else: TypeError
AppendAlertRaises ==
    \E i \in Alive, text \in AppendAlertArgs :
        /\ ~IsInstance(text, "str")
        /\ raised' = TypeError
        /\ args' = [self |-> i, arg |-> text]
        /\ pc' = "alerted"
        /\ UNCHANGED logVars
        /\ LoggerFrame

\* Logger.clear_log
ClearLog ==
    \E i \in Alive :
        /\ loggers' = [loggers EXCEPT ![i]._log = <<>>]
        /\ raised' = NoError
        /\ args' = [self |-> i]
        /\ pc' = "cleared"
        /\ UNCHANGED <<colorama_initializeed, colorama_active>>
        /\ LoggerFrame

NextLogger ==
    \/ NewLogger
    \/ DelLogger
    \/ LoggerAppend
    \/ LoggerAppendRaises
    \/ AppendAlert
    \/ AppendAlertRaises
    \/ ClearLog

SpecLogger == InitLogger /\ [][NextLogger]_vars

----------------------------------------------------------------------------
(* merge.py: merge_csv.  walk is the sequence of the files os.walk yields;   *)
(* fs[i] tells the columns pd.read_csv finds in file i and whether the file  *)
(* is still on disk.  A frame is known by its file and its columns; the      *)
(* text of a message by its fixed part and the file it names.                *)

\* _acceptable_csv_filename
AcceptableCsvFilename(filename, header_in_csv_filename, tail_in_csv_filename) ==
    /\ StartsWith(filename, header_in_csv_filename)
    /\ EndsWith(filename, tail_in_csv_filename \o <<".csv">>)

\* the arguments the main program passes for the TEP tables
HeaderInCsvFilename == <<"zz_TEP">>
TailInCsvFilename == <<"_TEP">>

CsvFileNames ==
    {<<"zz_TEP", "_1", "_TEP", ".csv">>, <<"zz_TEP", "_1", "_META", ".csv">>,
     <<"merged", "_TEP", ".csv">>}
ColumnNames == {"x", "y"}
ColumnLists == UNION {[1..n -> ColumnNames] : n \in 0..MaxColumns}
CsvFiles == [columns : ColumnLists, exists : {TRUE}]

\* Logger.append_alert and Logger.append of a str, on the Logger self
WithAlert(self, text) ==
    [self EXCEPT !._log = Append(@, ColorMsg(text, self.alert_color, self.alert_style,
                                             self.alert_background_color))]
WithMsg(self, text) ==
    [self EXCEPT !._log = Append(@, ColorMsg(text, "", "", ""))]

\* (df.columns != cols).any() for two column lists of one length
AnyDiffers(columns, first_cols) ==
    \E k \in DOMAIN columns : columns[k] # first_cols[k]

\* variant: only the number of columns is compared
HeaderErrorByLength(columns, first_cols) ==
    IF Len(columns) > Len(first_cols) THEN " !Error: too many columns in "
    ELSE IF Len(columns) < Len(first_cols) THEN " !Error: too few columns in "
    ELSE ""

\* the if/elif chain of lines 49-61: the alert to log, "" when no error occurred
HeaderError(columns, first_cols) ==
    IF Len(columns) > Len(first_cols) THEN " !Error: too many columns in "
    ELSE IF Len(columns) < Len(first_cols) THEN " !Error: too few columns in "
    ELSE IF AnyDiffers(columns, first_cols) THEN " !Error: table header not match in "
    ELSE ""

\* cols after lines 46-48; cols is None or the pandas Index [values |-> names]
ColsAfter(columns) == IF cols = None THEN columns ELSE cols.values

InitMerge ==
    /\ \E n \in 0..MaxFiles :
          /\ walk \in [1..n -> CsvFileNames]
          /\ fs \in [1..n -> CsvFiles]
    /\ delete_errorfile \in BOOLEAN
    /\ logger = NewLoggerObject
    /\ cols = None
    /\ list_df = <<>>
    /\ file_index = 1
    /\ skip_converted = FALSE
    /\ backup_excel = FALSE
    /\ mock_calls = <<>>
    /\ last_check = None
    /\ df = EmptyFrame
    /\ min_n_rows = 1
    /\ min_n_cols = 1
    /\ value_exists_at = NotnaToNumpy(EmptyFrame)
    /\ list_table_range = <<>>
    /\ row = 0
    /\ col = 0
    /\ table_range = None
    /\ raised = NoError
    /\ calls = 0
    /\ prev_result = <<>>
    /\ pc = "merge"
    /\ UnitIdle /\ LogIdle

InMerge == pc = "merge" /\ file_index <= Len(walk)

MergeFrame ==
    /\ UNCHANGED <<df, min_n_rows, min_n_cols, value_exists_at, list_table_range,
                   row, col, table_range, calls, prev_result>>
    /\ UNCHANGED <<walk, skip_converted, backup_excel, mock_calls, last_check>>
    /\ UNCHANGED <<delete_errorfile, unitVars, logVars>>

\* the filename is not acceptable: next file
MergeSkipName ==
    /\ InMerge
    /\ ~AcceptableCsvFilename(walk[file_index], HeaderInCsvFilename, TailInCsvFilename)
    /\ file_index' = file_index + 1
    /\ UNCHANGED <<fs, logger, cols, list_df, raised, pc>>
    /\ MergeFrame

\* pd.read_csv of a file without a header line raises EmptyDataError
MergeReadRaises ==
    /\ InMerge
    /\ AcceptableCsvFilename(walk[file_index], HeaderInCsvFilename, TailInCsvFilename)
    /\ fs[file_index].columns = <<>>
    /\ raised' = "EmptyDataError"
    /\ pc' = "raised"
    /\ UNCHANGED <<fs, file_index, logger, cols, list_df>>
    /\ MergeFrame

\* no error occurred: the frame is appended to list_df
MergeInclude ==
    /\ InMerge
    /\ AcceptableCsvFilename(walk[file_index], HeaderInCsvFilename, TailInCsvFilename)
    /\ fs[file_index].columns # <<>>
    /\ HeaderError(fs[file_index].columns, ColsAfter(fs[file_index].columns)) = ""
    /\ cols' = [values |-> ColsAfter(fs[file_index].columns)]
    /\ list_df' = Append(list_df, [file |-> file_index, columns |-> fs[file_index].columns])
    /\ file_index' = file_index + 1
    /\ UNCHANGED <<fs, logger, raised, pc>>
    /\ MergeFrame

\* an error occurred: alert; remove the file and log it if delete_errorfile; continue
MergeExclude ==
    /\ InMerge
    /\ AcceptableCsvFilename(walk[file_index], HeaderInCsvFilename, TailInCsvFilename)
    /\ fs[file_index].columns # <<>>
    /\ HeaderError(fs[file_index].columns, ColsAfter(fs[file_index].columns)) # ""
    /\ cols' = [values |-> ColsAfter(fs[file_index].columns)]
    /\ LET alerted == WithAlert(logger, <<HeaderError(fs[file_index].columns,
                                                       ColsAfter(fs[file_index].columns)),
                                          file_index>>)
       IN IF delete_errorfile
          THEN /\ fs' = [fs EXCEPT ![file_index].exists = FALSE]
               /\ logger' = WithMsg(alerted, <<" +-CSV file deleted: ", file_index>>)
          ELSE /\ fs' = fs
               /\ logger' = alerted
    /\ file_index' = file_index + 1
    /\ UNCHANGED <<list_df, raised, pc>>
    /\ MergeFrame

\* the walk is exhausted: pd.concat(list_df, ignore_index=True)
MergeReturn ==
    /\ pc = "merge"
    /\ file_index > Len(walk)
    /\ list_df # <<>>
    /\ result' = [columns |-> list_df[1].columns,
                  files |-> [k \in DOMAIN list_df |-> list_df[k].file]]
    /\ pc' = "merged"
    /\ UNCHANGED <<df, min_n_rows, min_n_cols, value_exists_at, list_table_range,
                   row, col, table_range, raised, calls, prev_result>>
    /\ UNCHANGED <<args, convVars, logVars, mergeVars>>

\* pd.concat of an empty list raises ValueError
MergeConcatRaises ==
    /\ pc = "merge"
    /\ file_index > Len(walk)
    /\ list_df = <<>>
    /\ raised' = ValueError
    /\ pc' = "raised"
    /\ UNCHANGED <<df, min_n_rows, min_n_cols, value_exists_at, list_table_range,
                   row, col, table_range, calls, prev_result>>
    /\ UNCHANGED extVars

NextMerge ==
    \/ MergeSkipName
    \/ MergeReadRaises
    \/ MergeInclude
    \/ MergeExclude
    \/ MergeReturn
    \/ MergeConcatRaises

SpecMerge == InitMerge /\ [][NextMerge]_vars

----------------------------------------------------------------------------
(* excel_table_conversion.py: ExcelTableConverter.extract_table_from_sheet.  *)
(* The sweep of find_all_table_range runs on the sheet df with the           *)
(* thresholds of the table format; then each returned range goes through     *)
(* _get_table and the transform_table callback.  args holds the format's     *)
(* header_row_offset and the callback; result is table_list.                 *)

IndexError == "IndexError"

\* frame.iloc[r, c] for integers r and c: [raised, value]; a negative position
\* counts from the end, a position outside the frame raises IndexError
ILocAt(frame, r, c) ==
    LET rr == IF r < 0 THEN r + frame.shape[1] ELSE r
        cc == IF c < 0 THEN c + frame.shape[2] ELSE c
    IN IF rr \in 0..(frame.shape[1] - 1) /\ cc \in 0..(frame.shape[2] - 1)
       THEN [raised |-> NoError, value |-> frame.data[<<rr, cc>>]]
       ELSE [raised |-> IndexError, value |-> NaN]

\* variant: the header row is kept as the first data row
GetTableKeepingHeader(frame, t, header_row_offset) ==
    LET table == ToDataframe(t, frame).frame
        nr == table.shape[1]
        nc == table.shape[2]
    IN IF header_row_offset >= nr
       THEN [raised |-> IndexError, table |-> None]
       ELSE [raised |-> NoError,
             table |-> [dtype |-> table.dtype,
                        shape |-> <<nr - header_row_offset, nc>>,
                        index |-> [i \in 1..(nr - header_row_offset) |-> i - 1],
                        columns |-> [j \in 1..nc |-> table.data[<<header_row_offset, j - 1>>]],
                        data |-> [p \in Indices(<<nr - header_row_offset, nc>>) |->
                                    table.data[<<header_row_offset + p[1], p[2]>>]]]]

\* ExcelTableConverter._get_table for a header_row_offset >= 0: [raised, table].
\* table.iloc[header_row_offset, :] raises IndexError past the last row; the
\* rows after it are kept, renumbered from 0, under the header row's values
GetTable(frame, t, header_row_offset) ==
    LET table == ToDataframe(t, frame).frame
        nr == table.shape[1]
        nc == table.shape[2]
    IN IF header_row_offset >= nr
       THEN [raised |-> IndexError, table |-> None]
       ELSE [raised |-> NoError,
             table |-> [dtype |-> table.dtype,
                        shape |-> <<nr - header_row_offset - 1, nc>>,
                        index |-> [i \in 1..(nr - header_row_offset - 1) |-> i - 1],
                        columns |-> [j \in 1..nc |-> table.data[<<header_row_offset, j - 1>>]],
                        data |-> [p \in Indices(<<nr - header_row_offset - 1, nc>>) |->
                                    table.data[<<header_row_offset + 1 + p[1], p[2]>>]]]]

\* table.insert(loc, column, value) with a scalar value, in place
Insert(table, loc, column, value) ==
    [table EXCEPT
        !.shape = <<table.shape[1], table.shape[2] + 1>>,
        !.columns = [j \in 1..(table.shape[2] + 1) |->
                        IF j - 1 < loc THEN table.columns[j]
                        ELSE IF j - 1 = loc THEN column
                        ELSE table.columns[j - 1]],
        !.data = [p \in Indices(<<table.shape[1], table.shape[2] + 1>>) |->
                        IF p[2] < loc THEN table.data[p]
                        ELSE IF p[2] = loc THEN value
                        ELSE table.data[<<p[1], p[2] - 1>>]]]

HasColumn(table, column) == \E j \in DOMAIN table.columns : table.columns[j] = column

LONGNAME_ROW_OFFSET == 0 - 2
SHORTNAME_ROW_OFFSET == 0 - 1

\* add_longname_and_shortname(df, table_range, table): [raised, table]; insert
\* raises ValueError when the table already has a column of that name
AddLongnameAndShortname(frame, t, table) ==
    LET longname == ILocAt(frame, t.start_row + LONGNAME_ROW_OFFSET, t.start_col)
        shortname == ILocAt(frame, t.start_row + SHORTNAME_ROW_OFFSET, t.start_col)
    IN IF longname.raised # NoError THEN [raised |-> longname.raised, table |-> None]
       ELSE IF shortname.raised # NoError THEN [raised |-> shortname.raised, table |-> None]
       ELSE IF HasColumn(table, "longname") THEN [raised |-> ValueError, table |-> None]
       ELSE IF HasColumn(Insert(table, 0, "longname", longname.value), "shortname")
       THEN [raised |-> ValueError, table |-> None]
       ELSE [raised |-> NoError,
             table |-> Insert(Insert(table, 0, "longname", longname.value),
                              1, "shortname", shortname.value)]

\* identity_transform
IdentityTransform(frame, t, table) == [raised |-> NoError, table |-> table]

\* self._transform_table(df, table_range, table)
TransformTable(transform_table, frame, t, table) ==
    IF transform_table = "add_longname_and_shortname"
    THEN AddLongnameAndShortname(frame, t, table)
    ELSE IdentityTransform(frame, t, table)

\* one iteration of the loop of lines 169-172: [raised, table]
TableOf(frame, t) ==
    LET got == GetTable(frame, t, args.header_row_offset)
    IN IF got.raised # NoError THEN got
       ELSE TransformTable(args.transform_table, frame, t, got.table)

SheetShapes ==
    {sh \in (0..MaxSheetRows) \X (0..MaxSheetCols) : sh[1] * sh[2] <= MaxSheetCells}
SheetFrames ==
    UNION {[dtype : {"object"}, shape : {sh}, data : [Indices(sh) -> CellValues]] :
              sh \in SheetShapes}

InitExtract ==
    /\ df \in SheetFrames
    /\ min_n_rows \in 0..MaxMin
    /\ min_n_cols \in 0..MaxMin
    /\ args \in [header_row_offset : 0..MaxOffset,
                 transform_table : {"identity_transform", "add_longname_and_shortname"}]
    /\ result = <<>>
    /\ value_exists_at = Entry(df, <<>>).value_exists_at
    /\ list_table_range = Entry(df, <<>>).list_table_range
    /\ row = 0
    /\ col = 0
    /\ table_range = None
    /\ raised = NoError
    /\ calls = 1
    /\ prev_result = <<>>
    /\ pc = "sweep"
    /\ ConvIdle /\ LogIdle /\ MergeIdle

\* the range the loop of extract_table_from_sheet is at
NextRangeToExtract == list_table_range[Len(result) + 1]

\* table_list.append(table)
ExtractTable ==
    /\ pc = "returned"
    /\ Len(result) < Len(list_table_range)
    /\ TableOf(df, NextRangeToExtract).raised = NoError
    /\ result' = Append(result, TableOf(df, NextRangeToExtract).table)
    /\ table_range' = NextRangeToExtract
    /\ UNCHANGED <<df, min_n_rows, min_n_cols, value_exists_at, list_table_range,
                   row, col, raised, calls, prev_result, pc, args>>
    /\ UNCHANGED <<convVars, logVars, mergeVars>>

\* _get_table or the callback raises
ExtractRaises ==
    /\ pc = "returned"
    /\ Len(result) < Len(list_table_range)
    /\ TableOf(df, NextRangeToExtract).raised # NoError
    /\ raised' = TableOf(df, NextRangeToExtract).raised
    /\ table_range' = NextRangeToExtract
    /\ pc' = "raised"
    /\ UNCHANGED <<df, min_n_rows, min_n_cols, value_exists_at, list_table_range,
                   row, col, calls, prev_result>>
    /\ UNCHANGED extVars

\* all ranges done: the tables of table_list are returned, concatenated
ExtractReturn ==
    /\ pc = "returned"
    /\ Len(result) = Len(list_table_range)
    /\ pc' = "extracted"
    /\ UNCHANGED <<df, min_n_rows, min_n_cols, value_exists_at, list_table_range,
                   row, col, table_range, raised, calls, prev_result>>
    /\ UNCHANGED extVars

NextExtract ==
    \/ Skip
    \/ Accept
    \/ Reject
    \/ EmptyRow
    \/ Return
    \/ ExtractTable
    \/ ExtractRaises
    \/ ExtractReturn

SpecExtract == InitExtract /\ [][NextExtract]_vars

\* one sweep of find_all_table_range over a sheet; the interpreter runs the
\* loops on, so a step that can be taken is taken
InitLive ==
    /\ df \in SheetFrames
    /\ min_n_rows \in 0..MaxMin
    /\ min_n_cols \in 0..MaxMin
    /\ value_exists_at = Entry(df, <<>>).value_exists_at
    /\ list_table_range = Entry(df, <<>>).list_table_range
    /\ row = 0
    /\ col = 0
    /\ table_range = None
    /\ raised = NoError
    /\ calls = 1
    /\ prev_result = <<>>
    /\ pc = "sweep"
    /\ UnitIdle /\ ConvIdle /\ LogIdle /\ MergeIdle

SpecLive == InitLive /\ [][Next]_vars /\ WF_vars(Next)

----------------------------------------------------------------------------
(* Properties *)

Returned == {list_table_range[i] : i \in DOMAIN list_table_range}
Height(t) == t.stop_row - t.start_row
Width(t) == t.stop_col - t.start_col
Missing(r, c) == df.data[<<r, c>>] = NaN
Min(S) == CHOOSE x \in S : \A y \in S : x <= y

\* C1: every range in the result list has at least min_n_rows rows and at
\* least min_n_cols columns.
C1_ReturnedHaveMinSize ==
    \A t \in Returned : Height(t) >= min_n_rows /\ Width(t) >= min_n_cols

C1_Witness ==
    /\ pc = "returned"
    /\ min_n_rows = 2 /\ min_n_cols = 2
    /\ list_table_range # <<>>
    /\ \E p \in DOMAIN df.data : ~Missing(p[1], p[2]) /\ \A t \in Returned : ~InRange(t, p[1], p[2])

\* C2: the rectangles of two different entries of the result list share no
\* cell, present or absent.
C2_PairwiseDisjoint ==
    \A i, j \in DOMAIN list_table_range :
        i # j => \A p \in DOMAIN df.data :
                    ~(InRange(list_table_range[i], p[1], p[2]) /\ InRange(list_table_range[j], p[1], p[2]))

C2_Witness ==
    /\ pc = "returned"
    /\ Len(list_table_range) >= 2
    /\ \E p \in DOMAIN df.data : Missing(p[1], p[2]) /\ InRange(list_table_range[1], p[1], p[2])
    /\ list_table_range[2].start_row < list_table_range[1].stop_row

\* C3: the header row of every range in the result list has no missing cell
\* in the frame that was given.
C3_HeaderHasNoGaps ==
    \A t \in Returned : \A c \in t.start_col..(t.stop_col - 1) : ~Missing(t.start_row, c)

C3_Witness ==
    /\ pc = "returned"
    /\ \E t \in Returned :
          /\ Width(t) >= 2
          /\ t.stop_col + 1 < df.shape[2]
          /\ Missing(t.start_row, t.stop_col)
          /\ ~Missing(t.start_row, t.stop_col + 1)

\* C4: the growth routine returns the range from the anchor to (stop_row,
\* stop_col), where stop_col is the first column at or after the anchor whose
\* cell in the anchor row is false (the column count if none) and stop_row is
\* the first row at or after the anchor whose cells in the column span are all
\* false (the row count if none); an absent anchor gives (start, start).
C4_GrowthResult ==
    pc = "grown" =>
        LET a == value_exists_at.data
            stop_col == Min({c \in col..(last_col - 1) : ~a[<<row, c>>]} \cup {last_col})
            stop_row == Min({r \in row..(last_row - 1) :
                                \A c \in col..(stop_col - 1) : ~a[<<r, c>>]} \cup {last_row})
        IN /\ table_range = [start_row |-> row, start_col |-> col,
                             stop_row |-> stop_row, stop_col |-> stop_col]
           /\ ~a[<<row, col>>] =>
                table_range = [start_row |-> row, start_col |-> col,
                               stop_row |-> row, stop_col |-> col]

C4_Witness ==
    /\ pc = "grown"
    /\ Height(table_range) >= 2 /\ Width(table_range) >= 2
    /\ table_range.stop_row < last_row /\ table_range.stop_col < last_col
    /\ \E p \in DOMAIN value_exists_at.data :
          InRange(table_range, p[1], p[2]) /\ ~value_exists_at.data[p]
    /\ \E p \in DOMAIN value_exists_at.data :
          p[1] = table_range.stop_row /\ value_exists_at.data[p]

C4_WitnessAbsentAnchor ==
    pc = "grown" /\ ~value_exists_at.data[<<row, col>>] /\ Height(table_range) = 0

\* C5: the anchors of the result list are strictly increasing in row-major
\* order along the list.
C5_AnchorsInSweepOrder ==
    \A i, j \in DOMAIN list_table_range :
        i < j =>
            LET s == list_table_range[i]
                t == list_table_range[j]
            IN \/ s.start_row < t.start_row
               \/ s.start_row = t.start_row /\ s.start_col < t.start_col

C5_Witness ==
    /\ pc = "returned"
    /\ Len(list_table_range) >= 3
    /\ list_table_range[1].start_row = list_table_range[2].start_row
    /\ list_table_range[3].start_col < list_table_range[2].start_col

\* C6: a sweep step on a present cell whose grown range is too small changes
\* neither the working array nor the result list.
C6_RejectChangesNothing ==
    [][(/\ InLoop
        /\ value_exists_at.data[<<row, col>>]
        /\ table_range' # None
        /\ (Height(table_range') < min_n_rows \/ Width(table_range') < min_n_cols))
       => (value_exists_at' = value_exists_at /\ list_table_range' = list_table_range)]_vars

C6_Witness ==
    /\ table_range # None
    /\ Height(table_range) >= 1 /\ Width(table_range) < min_n_cols
    /\ list_table_range = <<>>
    /\ value_exists_at = NotnaToNumpy(df)
    /\ <<row, col>> # <<0, 0>>

\* C7: every cell of every accepted range is absent in the working array from
\* the step that accepted it on, and the cell a step grows from lies in no
\* accepted range.
C7_AcceptedStayErased ==
    /\ \A t \in Returned : \A p \in DOMAIN value_exists_at.data :
          InRange(t, p[1], p[2]) => ~value_exists_at.data[p]
    /\ (InLoop /\ value_exists_at.data[<<row, col>>]) =>
          \A t \in Returned : ~InRange(t, row, col)

C7_Witness ==
    /\ InLoop
    /\ \E t \in Returned : InRange(t, row, col) /\ ~Missing(row, col) /\ row > t.start_row

\* C8: for a frame with no rows, no columns or only missing cells the result
\* list is empty, no range is ever grown, nothing is raised and the call can
\* always go on until it returns.
NoData == \A p \in DOMAIN df.data : df.data[p] = NaN

C8_NoDataGivesEmptyList ==
    NoData => /\ list_table_range = <<>>
              /\ table_range = None
              /\ raised = NoError
              /\ pc \in {"sweep", "returned"}
              /\ pc = "sweep" => ENABLED Next

C8_Witness ==
    /\ pc = "returned" /\ NoData /\ list_table_range = <<>>
    /\ df.shape[1] >= 2 /\ df.shape[2] >= 2

C8_WitnessNoColumns ==
    pc = "returned" /\ df.shape[1] >= 2 /\ df.shape[2] = 0

\* C9: an invocation on the same frame with the same thresholds returns the
\* same list as the invocation before it.
C9_SameResultAgain ==
    (pc = "returned" /\ calls >= 2) => list_table_range = prev_result

C9_Witness ==
    pc = "returned" /\ calls >= 2 /\ Len(list_table_range) >= 2

\* C10: the growth routine given an array that is not boolean raises
\* TypeError and returns no range, whatever the anchor and the values.
C10_NonBooleanRaises ==
    (pc # "call" /\ value_exists_at.dtype # "bool") =>
        /\ pc = "raised"
        /\ raised = TypeError
        /\ table_range = None

C10_Witness ==
    /\ pc = "raised"
    /\ value_exists_at.dtype = "int"
    /\ value_exists_at.data[<<row, col>>] = 1
    /\ \E p \in DOMAIN value_exists_at.data : value_exists_at.data[p] = 0

\* C11: constructing a TableRange from a start_pos or stop_pos whose length
\* is not two raises ValueError and makes no range; from two positions of
\* length two it succeeds and start_pos, stop_pos read back the values given.
C11_ConstructorChecksLengths ==
    pc \in {"range", "raised"} =>
        IF Len(args.start_pos) = 2 /\ Len(args.stop_pos) = 2
        THEN /\ pc = "range"
             /\ raised = NoError
             /\ StartPos(table_range) = args.start_pos
             /\ StopPos(table_range) = args.stop_pos
        ELSE /\ pc = "raised"
             /\ raised = ValueError
             /\ table_range = None

C11_Witness ==
    /\ pc = "raised"
    /\ Len(args.start_pos) = 2
    /\ Len(args.stop_pos) = 3

C11_WitnessConstructed ==
    pc = "range" /\ args.start_pos = <<1, 2>> /\ args.stop_pos = <<3, 0>>

\* C12: after fill_inplace(array, value) every cell of the array inside the
\* rectangle of the range holds value and every other cell holds what it held
\* before; the shape is the same.
C12_FillOnlyInsideRectangle ==
    pc = "filled" =>
        /\ value_exists_at.shape = args.array.shape
        /\ DOMAIN value_exists_at.data = DOMAIN args.array.data
        /\ \A p \in DOMAIN args.array.data :
              IF /\ table_range.start_row <= p[1] /\ p[1] < table_range.stop_row
                 /\ table_range.start_col <= p[2] /\ p[2] < table_range.stop_col
              THEN value_exists_at.data[p] = args.value
              ELSE value_exists_at.data[p] = args.array.data[p]

C12_Witness ==
    /\ pc = "filled"
    /\ table_range = TableRange(<<1, 0>>, <<3, 1>>)
    /\ args.array.shape = <<2, 2>>
    /\ args.value = FALSE
    /\ \A p \in DOMAIN args.array.data : args.array.data[p]
    /\ value_exists_at.data[<<1, 1>>]
    /\ ~value_exists_at.data[<<1, 0>>]

\* C13: has_min_size(min_n_rows, min_n_cols) is true exactly when the height
\* is at least min_n_rows and the width is at least min_n_cols.
C13_HasMinSizeIffBoth ==
    pc = "has_min_size" =>
        (result = TRUE <=>
            /\ table_range.stop_row - table_range.start_row >= min_n_rows
            /\ table_range.stop_col - table_range.start_col >= min_n_cols)

C13_Witness ==
    /\ pc = "has_min_size"
    /\ result = FALSE
    /\ table_range.stop_row - table_range.start_row >= min_n_rows
    /\ table_range.stop_col - table_range.start_col = min_n_cols - 1
    /\ min_n_rows = 2

\* C14: to_dataframe(frame) returns the cells of frame at the rows r with
\* start_row <= r < stop_row and the columns c with start_col <= c < stop_col,
\* under their labels in frame, in order, and leaves frame and range as given.
RowsInside == {r \in 0..(df.shape[1] - 1) : table_range.start_row <= r /\ r < table_range.stop_row}
ColsInside == {c \in 0..(df.shape[2] - 1) : table_range.start_col <= c /\ c < table_range.stop_col}
IsAscending(seq) == \A i \in 1..(Len(seq) - 1) : seq[i] < seq[i + 1]

C14_ToDataframeIsTheRectangle ==
    pc = "to_dataframe" =>
        /\ df = args.df
        /\ table_range = args.range
        /\ {result.index[i] : i \in DOMAIN result.index} = RowsInside
        /\ {result.columns[j] : j \in DOMAIN result.columns} = ColsInside
        /\ IsAscending(result.index) /\ IsAscending(result.columns)
        /\ result.shape = <<Len(result.index), Len(result.columns)>>
        /\ \A i \in DOMAIN result.index : \A j \in DOMAIN result.columns :
              result.data[<<i - 1, j - 1>>] = df.data[<<result.index[i], result.columns[j]>>]

\* the result test_to_dataframe expects
C14_Witness ==
    /\ pc = "to_dataframe"
    /\ df = ExampleFrame
    /\ table_range = TableRange(<<1, 3>>, <<3, 5>>)
    /\ result.index = <<1, 2>>
    /\ result.columns = <<3, 4>>
    /\ result.data = FromRows("object", << <<"c", "d">>, <<NaN, "-4">> >>).data

\* C15 as claimed: to_dataframe of a range whose stop_row or stop_col exceeds
\* the frame's number of rows or columns raises an error.
Exceeds ==
    \/ table_range.stop_row > df.shape[1]
    \/ table_range.stop_col > df.shape[2]

C15_ExceedingRaises ==
    (pc = "to_dataframe" /\ Exceeds) => raised # NoError

\* C15 as amended: to_dataframe of such a range raises nothing and returns the
\* part of the rectangle that lies inside the frame.
C15_ExceedingIsTruncated ==
    (pc = "to_dataframe" /\ Exceeds) =>
        /\ raised = NoError
        /\ Len(result.index) = Cardinality(RowsInside)
        /\ Len(result.columns) = Cardinality(ColsInside)
        /\ \A i \in DOMAIN result.index : result.index[i] < df.shape[1]
        /\ \A j \in DOMAIN result.columns : result.columns[j] < df.shape[2]

C15_Witness ==
    /\ pc = "to_dataframe"
    /\ df.shape = <<2, 2>>
    /\ table_range = TableRange(<<1, 0>>, <<3, 3>>)
    /\ result.index = <<1>>
    /\ result.columns = <<0, 1>>

\* C16 as claimed: has_min_size is false for a range with stop_row = start_row
\* or stop_col = start_col, whatever the thresholds.
Degenerate(t) == t.stop_row = t.start_row \/ t.stop_col = t.start_col

C16_DegenerateAlwaysFails ==
    (pc = "has_min_size" /\ Degenerate(table_range)) => result = FALSE

\* C16 as amended: has_min_size is false for such a range when both
\* thresholds are at least 1.
C16_DegenerateFailsPositiveMinimum ==
    (pc = "has_min_size" /\ Degenerate(table_range) /\ min_n_rows >= 1 /\ min_n_cols >= 1)
        => result = FALSE

C16_Witness ==
    /\ pc = "has_min_size"
    /\ table_range = TableRange(<<1, 1>>, <<3, 1>>)
    /\ min_n_rows = 1 /\ min_n_cols = 1
    /\ result = FALSE

\* C17: the range the growth routine returns and every range in the result
\* list lie inside the array: 0 <= start_row <= stop_row <= number of rows and
\* 0 <= start_col <= stop_col <= number of columns.
WithinArray(t) ==
    /\ 0 <= t.start_row /\ t.start_row <= t.stop_row /\ t.stop_row <= last_row
    /\ 0 <= t.start_col /\ t.start_col <= t.stop_col /\ t.stop_col <= last_col

C17_RangesWithinArray ==
    /\ table_range # None => WithinArray(table_range)
    /\ \A t \in Returned : WithinArray(t)

C17_Witness ==
    /\ pc = "grown"
    /\ ~value_exists_at.data[<<row, col>>]
    /\ row >= 1 /\ col >= 1
    /\ table_range = TableRange(<<row, col>>, <<row, col>>)

C17_WitnessSweep ==
    /\ pc = "returned"
    /\ \E t \in Returned : t.stop_row = last_row /\ t.stop_col = last_col /\ t.start_row >= 1

\* the calls made so far: no call twice, only for files already passed, and a
\* backup only with backup_excel and right after the conversion of its file
CountOf(call) == Cardinality({k \in DOMAIN mock_calls : mock_calls[k] = call})

CallsWellFormed ==
    \A k \in DOMAIN mock_calls :
        /\ CountOf(mock_calls[k]) = 1
        /\ mock_calls[k][2] < file_index
        /\ AcceptableExcelFilename(walk[mock_calls[k][2]])
        /\ mock_calls[k][1] = "_backup_excel" =>
              /\ backup_excel
              /\ k > 1
              /\ mock_calls[k - 1] = ConvertCall(mock_calls[k][2])
        /\ (mock_calls[k][1] = "convert_to_csv" /\ backup_excel) =>
              /\ k < Len(mock_calls)
              /\ mock_calls[k + 1] = BackupCall(mock_calls[k][2])

\* "already converted" as the docstring of convert_all_to_csv defines it: the
\* CSV file exists and was modified later than the Excel file
ConvertedLater(f) == f.target_exists /\ f.target_mtime > f.source_mtime

CallsOfIteration(already_converted) ==
    IF ~AcceptableExcelFilename(walk[file_index]) THEN <<>>
    ELSE IF skip_converted /\ already_converted THEN <<>>
    ELSE IF backup_excel THEN <<ConvertCall(file_index), BackupCall(file_index)>>
    ELSE <<ConvertCall(file_index)>>

\* C18 as claimed: each iteration of the walk makes no call for a filename that
\* is not acceptable, no call for an acceptable file when skip_converted is set
\* and the file is already converted, and otherwise one convert_to_csv
\* followed, iff backup_excel is set, by one _backup_excel; no file is
\* converted or backed up twice.
C18_CallsPerFile ==
    /\ []CallsWellFormed
    /\ [][(pc = "walk" /\ file_index' = file_index + 1)
            => mock_calls' = mock_calls \o CallsOfIteration(ConvertedLater(fs[file_index]))]_vars

\* The same statement holds when "already converted" is read as the value
\* _already_converted returns.
CallsFollowAlreadyConverted ==
    /\ []CallsWellFormed
    /\ [][(pc = "walk" /\ file_index' = file_index + 1)
            => mock_calls' = mock_calls \o CallsOfIteration(AlreadyConverted(fs[file_index]))]_vars

\* C19 as claimed: _already_converted returns true exactly when the target
\* exists and was modified later than the source.
C19_AlreadyConvertedIffLater ==
    last_check # None =>
        (last_check.returned = TRUE <=>
            (last_check.target_exists /\ last_check.target_mtime > last_check.source_mtime))

\* C20 as claimed: whenever a Logger has just been constructed, colorama is
\* initialized, whatever Loggers were created and deleted before.
C20_ConstructedLeavesColoramaInitialized ==
    pc = "constructed" => colorama_active

\* C21: every step on a Logger leaves last_msg as claimed. A successful append
\* makes it the ColorMsg appended (the str as a plain ColorMsg), a successful
\* append_alert the text in the logger's alert color, style and background;
\* creation and clear_log make it ColorMsg(''); a call rejected with TypeError
\* changes no log; and a call on one Logger leaves last_msg of every other
\* Logger as it was.
Plain(text) == ColorMsg(text, "", "", "")

ExpectedLastMsg(i) ==
    IF loggers[i] = None THEN Plain("")
    ELSE IF args'.self # i \/ raised' # NoError THEN LastMsg(loggers[i])
    ELSE IF pc' = "cleared" THEN Plain("")
    ELSE IF pc' = "alerted"
    THEN ColorMsg(args'.arg.value, loggers[i].alert_color, loggers[i].alert_style,
                  loggers[i].alert_background_color)
    ELSE IF args'.arg.type = "str" THEN Plain(args'.arg.value)
    ELSE args'.arg

C21_LastMsgIsMostRecent ==
    [][/\ \A i \in 1..MaxLoggers :
              loggers'[i] # None => LastMsg(loggers'[i]) = ExpectedLastMsg(i)
       /\ raised' = TypeError => loggers' = loggers]_vars

\* an alert was appended after a plain message, and then an append was rejected
C21_Witness ==
    /\ pc = "appended"
    /\ raised = TypeError
    /\ loggers[args.self]._log = <<Plain("a"), ColorMsg("a", "Fore.RED", "", "")>>

\* C22: every frame in list_df (and so in the merged result) has the column
\* list of the first acceptable CSV of the walk; of the acceptable files
\* already passed, one with that column list is included, not alerted and
\* still on disk, and one with another column list is excluded, has an alert
\* in the log and is on disk iff delete_errorfile is false.
AcceptableFiles ==
    {i \in DOMAIN walk : AcceptableCsvFilename(walk[i], HeaderInCsvFilename, TailInCsvFilename)}
Included(i) == \E k \in DOMAIN list_df : list_df[k].file = i
Alerted(i) ==
    \E k \in DOMAIN logger._log :
        /\ logger._log[k]._text[2] = i
        /\ logger._log[k]._text[1] \in {" !Error: too many columns in ",
                                        " !Error: too few columns in ",
                                        " !Error: table header not match in "}
        /\ logger._log[k]._color = logger.alert_color

C22_MergesOnlyCompatible ==
    pc \in {"merge", "merged", "raised"} /\ AcceptableFiles # {} =>
        LET first_cols == fs[Min(AcceptableFiles)].columns IN
        /\ \A k \in DOMAIN list_df : list_df[k].columns = first_cols
        /\ pc = "merged" => result.columns = first_cols
        /\ \A i \in AcceptableFiles :
              i < file_index =>
                 IF fs[i].columns = first_cols
                 THEN Included(i) /\ ~Alerted(i) /\ fs[i].exists
                 ELSE /\ ~Included(i)
                      /\ Alerted(i)
                      /\ fs[i].exists <=> ~delete_errorfile

\* a file with other names in as many columns was excluded and deleted, and
\* the merge returned
C22_Witness ==
    /\ pc = "merged"
    /\ delete_errorfile
    /\ \E i \in AcceptableFiles :
          /\ Len(fs[i].columns) = Len(result.columns)
          /\ fs[i].columns # result.columns
          /\ ~fs[i].exists

\* C23 as claimed: for every range of the list, the table the callback
\* add_longname_and_shortname returns has as column 0, named 'longname', the
\* value of the grid cell (start_row - 2, start_col) and as column 1, named
\* 'shortname', the value of the grid cell (start_row - 1, start_col), both
\* cells of the grid above the first row of the table; the callback raises
\* nothing.
Extracting == pc \in {"returned", "extracted", "raised"}
HeaderInside(t) == t.start_row + args.header_row_offset < t.stop_row

NamesFromAbove(t, table) ==
    /\ t.start_row + LONGNAME_ROW_OFFSET >= 0
    /\ table.columns[1] = "longname"
    /\ table.columns[2] = "shortname"
    /\ \A i \in 0..(table.shape[1] - 1) :
          /\ table.data[<<i, 0>>] = df.data[<<t.start_row - 2, t.start_col>>]
          /\ table.data[<<i, 1>>] = df.data[<<t.start_row - 1, t.start_col>>]

C23_NamesFromCellsAbove ==
    (Extracting /\ args.transform_table = "add_longname_and_shortname") =>
        /\ \A k \in DOMAIN result : NamesFromAbove(list_table_range[k], result[k])
        /\ pc = "raised" => ~HeaderInside(table_range)

\* C30: with header_row_offset < min_n_rows, _get_table raises for no returned
\* range; the header row start_row + header_row_offset lies inside the range
\* and gives the column names; the table has (stop_row - start_row) -
\* header_row_offset - 1 data rows, which are the rows of the range below the
\* header row, in order.
NameColumns == IF args.transform_table = "add_longname_and_shortname" THEN 2 ELSE 0

IsTableOf(t, table) ==
    LET h == args.header_row_offset IN
    /\ HeaderInside(t)
    /\ table.shape = <<Height(t) - h - 1, Width(t) + NameColumns>>
    /\ \A j \in 0..(Width(t) - 1) :
          table.columns[j + 1 + NameColumns] = df.data[<<t.start_row + h, t.start_col + j>>]
    /\ \A i \in 0..(Height(t) - h - 2), j \in 0..(Width(t) - 1) :
          /\ t.start_row + h + 1 + i < t.stop_row
          /\ table.data[<<i, j + NameColumns>>]
                = df.data[<<t.start_row + h + 1 + i, t.start_col + j>>]

C30_GetTableStaysInRange ==
    (Extracting /\ args.header_row_offset < min_n_rows) =>
        /\ \A k \in DOMAIN result : IsTableOf(list_table_range[k], result[k])
        /\ pc = "raised" => HeaderInside(table_range)

\* a table of three rows with its header in the second row was extracted
C30_Witness ==
    /\ pc = "extracted"
    /\ args.header_row_offset = 1
    /\ min_n_rows = 2
    /\ Len(result) >= 1
    /\ Height(list_table_range[1]) = 3
    /\ result[1].shape[1] = 1

\* C24: every row of every range in the result list holds, within the
\* columns of the range, at least one cell that is non-missing in the frame
\* that was given.
C24_NoEmptyRowInside ==
    \A t \in Returned :
        \A r \in t.start_row..(t.stop_row - 1) :
            \E c \in t.start_col..(t.stop_col - 1) : ~Missing(r, c)

\* a returned range has a row below its header with a missing cell
C24_Witness ==
    /\ pc = "returned"
    /\ \E t \in Returned :
          \E r \in (t.start_row + 1)..(t.stop_row - 1) :
              \E c \in t.start_col..(t.stop_col - 1) : Missing(r, c)

\* C25: the cells of a rectangle that was grown and rejected stay claimable:
\* while table_range is a rejected rectangle, each of its cells that is
\* non-missing in the frame and in no accepted range is still present in the
\* working array, so that an anchor reached later can take it into an accepted
\* range (the witness is such a state).
Rejected(t) == t # None /\ ~(Height(t) >= min_n_rows /\ Width(t) >= min_n_cols)

C25_RejectedCellsStayPresent ==
    (pc = "sweep" /\ Rejected(table_range)) =>
        \A p \in DOMAIN df.data :
            (/\ InRange(table_range, p[1], p[2])
             /\ ~Missing(p[1], p[2])
             /\ \A t \in Returned : ~InRange(t, p[1], p[2]))
            => value_exists_at.data[p]

\* a rectangle was rejected, and the sweep is at a later anchor whose range is
\* accepted and contains a cell of the rejected rectangle
C25_Witness ==
    /\ InLoop
    /\ Rejected(table_range)
    /\ <<row, col>> # <<table_range.start_row, table_range.start_col>>
    /\ value_exists_at.data[<<row, col>>]
    /\ LET t == FindTableRange(<<row, col>>, value_exists_at).range
       IN /\ Height(t) >= min_n_rows /\ Width(t) >= min_n_cols
          /\ \E p \in DOMAIN df.data :
                InRange(t, p[1], p[2]) /\ InRange(table_range, p[1], p[2])

\* C26: the sweep examines the positions in row-major order, one more with
\* every iteration and none twice; every grown range ends within the array;
\* the sweep reaches its return, and then every position has been examined.
Examined == row * last_col + col

C26_SweepTerminates ==
    /\ [][(pc = "sweep" /\ pc' = "sweep") =>
             IF last_col = 0 THEN row' = row + 1 /\ col' = col
             ELSE Examined' = Examined + 1 /\ col' < last_col]_vars
    /\ [](table_range # None => WithinArray(table_range))
    /\ [](pc = "returned" => row = last_row /\ Examined = last_row * last_col)
    /\ <>(pc = "returned")

\* the sweep over a frame of at least two rows and two columns has returned
C26_Witness ==
    /\ pc = "returned"
    /\ last_row >= 2 /\ last_col >= 2
    /\ list_table_range # <<>>

\* C27: with min_n_rows <= 1 and min_n_cols <= 1, when the sweep has returned
\* every cell that is non-missing in the frame lies in exactly one range of
\* the result list and no cell is present in the working array.
RangesHolding(p) == {i \in DOMAIN list_table_range : InRange(list_table_range[i], p[1], p[2])}

C27_DataIsCovered ==
    (pc = "returned" /\ min_n_rows <= 1 /\ min_n_cols <= 1) =>
        \A p \in DOMAIN df.data :
            /\ ~Missing(p[1], p[2]) => Cardinality(RangesHolding(p)) = 1
            /\ ~value_exists_at.data[p]

\* two ranges were needed to cover the data of a frame with missing cells
C27_Witness ==
    /\ pc = "returned"
    /\ min_n_rows = 1 /\ min_n_cols = 1
    /\ Len(list_table_range) >= 2
    /\ \E p \in DOMAIN df.data : Missing(p[1], p[2])

\* C28: for every range in the result list, the cell left of its header, the
\* cell right of its header and every cell of the row below it within its
\* columns is outside the array, missing in the frame, or inside a range that
\* comes earlier in the list.
Spent(k, r, c) ==
    \/ <<r, c>> \notin DOMAIN df.data
    \/ Missing(r, c)
    \/ \E i \in 1..(k - 1) : InRange(list_table_range[i], r, c)

C28_RangesAreMaximal ==
    \A k \in DOMAIN list_table_range :
        LET t == list_table_range[k] IN
        /\ Spent(k, t.start_row, t.start_col - 1)
        /\ Spent(k, t.start_row, t.stop_col)
        /\ \A c \in t.start_col..(t.stop_col - 1) : Spent(k, t.stop_row, c)

\* a range is bounded on the right by a cell of an earlier range and below by
\* a row of missing cells
C28_Witness ==
    /\ pc = "returned"
    /\ \E k \in DOMAIN list_table_range :
          LET t == list_table_range[k] IN
          /\ <<t.start_row, t.stop_col>> \in DOMAIN df.data
          /\ ~Missing(t.start_row, t.stop_col)
          /\ <<t.stop_row, t.start_col>> \in DOMAIN df.data
          /\ Width(t) >= 2

\* C29: the working array only shrinks. A cell is absent in it iff it is
\* missing in the frame or lies in a range of the result list; no step makes
\* an absent cell present; no step changes the frame.
C29_WorkingArrayOnlyShrinks ==
    /\ [](\A p \in DOMAIN df.data :
             ~value_exists_at.data[p] <=> (Missing(p[1], p[2]) \/ RangesHolding(p) # {}))
    /\ [][/\ df' = df
          /\ \A p \in DOMAIN df.data : value_exists_at'.data[p] => value_exists_at.data[p]]_vars

\* a range was accepted and erased, and cells outside it are still present
C29_Witness ==
    /\ pc = "sweep"
    /\ list_table_range # <<>>
    /\ \E p \in DOMAIN df.data : value_exists_at.data[p]
    /\ \E p \in DOMAIN df.data : ~Missing(p[1], p[2]) /\ ~value_exists_at.data[p]

====
